---- MODULE Spec2Model ----
(***************************************************************************)
(* gitclean (src/gitclean.py): the interactive workflow that removes       *)
(* secrets from a git repository.  The model follows main() statement by   *)
(* statement: setup of the three repository forms, the menu loop with      *)
(* branch cleaning and the two history-rewrite strategies, run_cmd's retry *)
(* loop, and the finally block that tears the run down.                    *)
(*                                                                         *)
(* Text typed by the operator is a sequence of one-character strings, so   *)
(* that str.strip(), str.lower() and str.split(",") are computed.          *)
(* An external command is atomic: an attempt with an accepted exit code    *)
(* has its effect, any other attempt has none.  A KeyboardInterrupt may    *)
(* arrive between any two statements of the try block of main(); the       *)
(* finally block is modelled as running without a further interrupt.       *)
(*                                                                         *)
(* get_secrets_from_report and write_secrets_txt are computed on JSON      *)
(* values and character sequences in a specification of their own,         *)
(* SpecReport; in Spec the extraction is one step of each rewrite run.     *)
(***************************************************************************)
EXTENDS Integers, Sequences, FiniteSets, TLC

\* ---------------------------------------------------------------- bounds
\* Highest content revision a repository form can reach.
MaxRev == 2
\* Highest number of retries the operator grants one run_cmd call.
MaxAttempts == 1
\* Highest number of entries of a report.
MaxFindings == 3
\* Highest number of processes lsof finds under the mount point.
MaxPids == 2

\* ------------------------------------------------------------- constants
\* A path os.path.exists() reports missing.
NoDir == -1
\* subprocess.run raised instead of returning a code.
Raised == -1
\* The process has not ended.
NoStatus == -1

VARIABLES
    pc,          \* statement main() is at
    rcst,        \* run_cmd: "idle" (not in the loop), "prompt", "retry"
    attempts,    \* retries granted in the current run_cmd call
    lastCmd,     \* the command of the latest subprocess.run of run_cmd
    lastRc,      \* its return code (Raised: subprocess.run raised)
    lastAcc,     \* its acceptable_codes
    branches,    \* branches still to clean (line 487-488)
    dry_run,     \* args.dry_run
    MOUNTED,     \* the module's global flag (line 33)
    cwd,         \* os.getcwd()
    work_dir,    \* main's work_dir: "unset", "rel" (line 369), "abs" (line 371)
    fs,          \* the files, the remote and the volume
    exc,         \* the exception that left the try block, "none" inside it
    exitStatus,  \* the status the process ended with, NoStatus while running
    gates,       \* what was typed at each prompt of the current operation
    runLog,      \* the commands issued in the current operation, in order
    td,          \* what the finally block found and did: see NoTd
    hist,        \* what this run did: see NoHist
    xpc,         \* the extraction of lines 257-258: "off", "report", "secrets",
                 \* "written", "raised"
    report_json, \* what gitleaks-report.json holds
    secrets_list,\* the list get_secrets_from_report returned
    secrets_txt  \* the characters of secrets.txt

\* The extraction state, studied on its own in SpecReport.
rvars == <<xpc, report_json, secrets_list, secrets_txt>>

\* The workflow state.
mvars == <<pc, rcst, attempts, lastCmd, lastRc, lastAcc,
           branches, dry_run, MOUNTED, cwd, work_dir, fs, exc, exitStatus,
           gates, runLog, td, hist>>

vars == <<mvars, rvars>>

\* ------------------------------------------------------- text operations
S_y       == <<"y">>
S_exit    == <<"e", "x", "i", "t">>
S_restore == <<"r", "e", "s", "t", "o", "r", "e">>
S_discard == <<"d", "i", "s", "c", "a", "r", "d">>

lowerChar(c) ==
    CASE c = "Y" -> "y"
      [] c = "N" -> "n"
      [] c = "E" -> "e"
      [] c = "D" -> "d"
      [] c = "R" -> "r"
      [] OTHER   -> c

lower(s) == [i \in 1..Len(s) |-> lowerChar(s[i])]

RECURSIVE lstrip(_)
lstrip(s) == IF s # <<>> /\ Head(s) = " " THEN lstrip(Tail(s)) ELSE s

RECURSIVE rstrip(_)
rstrip(s) ==
    IF s # <<>> /\ s[Len(s)] = " " THEN rstrip(SubSeq(s, 1, Len(s) - 1)) ELSE s

strip(s) == rstrip(lstrip(s))

RECURSIVE splitFrom(_, _)
splitFrom(s, cur) ==
    IF s = <<>> THEN <<cur>>
    ELSE IF Head(s) = "," THEN <<cur>> \o splitFrom(Tail(s), <<>>)
    ELSE splitFrom(Tail(s), Append(cur, Head(s)))

\* str.split(",")
split(s) == splitFrom(s, <<>>)

RECURSIVE nonEmptyStripped(_)
nonEmptyStripped(parts) ==
    IF parts = <<>> THEN <<>>
    ELSE IF strip(Head(parts)) # <<>>
         THEN <<strip(Head(parts))>> \o nonEmptyStripped(Tail(parts))
         ELSE nonEmptyStripped(Tail(parts))

\* line 487: [b.strip() for b in branches_input.split(",") if b.strip()]
parse_branches(s) == nonEmptyStripped(split(s))

\* ---------------------------------------------------- what the operator types
YesNoInputs == { <<"y">>, <<" ", "Y">>, <<"n">>, <<>>, <<"y", "e", "s">> }
GateInputs  == { <<>>, S_exit, <<"E", "x", "i", "t", " ">>, <<"o", "k">> }
SetupInputs == { <<>>, S_exit, S_restore, S_discard,
                 <<" ", "D", "i", "s", "c", "a", "r", "d">> }
MenuInputs  == { <<"1">>, <<"2">>, <<" ", "3">>, <<"4">>, <<"5">>, <<>> }
BranchInputs == { <<>>, <<" ">>, <<",">>, <<"a">>, <<"a", ",", " ", "b">> }

\* ------------------------------------------------------ program locations
TeardownPcs == {"t_chdir", "t_rmtree", "t_mounted", "t_kill", "t_detach", "t_end"}
InWorkflow  == pc \notin TeardownPcs \cup {"done"}

\* The scanner called with run_cmd's default acceptable_codes.
ScannerCodesDefault == {0}

\* acceptable_codes of run_cmd: its default (lines 67-68) and the scanner's
\* (lines 53 and 64).
DefaultCodes == {0}
ScannerCodes == {0, 1}

\* What one attempt of a command can end with.  git clone --mirror into the
\* volume's gitfilter-repo directory fails when the mirror is already there.
Outcomes(cmd) ==
    IF cmd = "vol git clone --mirror" /\ fs.vmirror # NoDir
    THEN {1, 2, Raised}
    ELSE {0, 1, 2, Raised}

\* The status the process ends with when the finally block completes: exit(n)
\* passes through it, the two except clauses (lines 507-512) swallow theirs.
StatusOf(e) ==
    CASE e = "exit0" -> 0
      [] e = "exit1" -> 1
      [] e = "KeyboardInterrupt" -> 0
      [] e = "Exception" -> 0
      [] OTHER -> 0

\* ---------------------------------------------------------------- helpers
\* A statement that is no run_cmd attempt and stays in the try block.
Step(next) ==
    /\ rcst = "idle"
    /\ pc' = next
    /\ rcst' = "idle" /\ attempts' = 0
    /\ lastCmd' = "none" /\ lastRc' = 0 /\ lastAcc' = {0}
    /\ UNCHANGED <<rvars, dry_run, exc, exitStatus, td>>

\* exit(n) inside the try block: SystemExit passes both except clauses and
\* enters the finally block.
Exit(e) ==
    /\ pc' = "t_chdir"
    /\ exc' = e
    /\ rcst' = "idle" /\ attempts' = 0
    /\ lastCmd' = "none" /\ lastRc' = 0 /\ lastAcc' = {0}
    /\ UNCHANGED <<rvars, dry_run, exitStatus, td>>

\* The sequences over S of length n at most.
SeqsUpTo(S, n) == UNION {[1..k -> S] : k \in 0..n}

\* The record of the current operation with x as its latest entry; the
\* attempts of one command that follow each other are one entry.
Logged(x) ==
    IF runLog # <<>> /\ runLog[Len(runLog)] = x THEN runLog ELSE Append(runLog, x)

\* The commands the current operation has issued so far.
Issued == {runLog[i] : i \in DOMAIN runLog}

\* run_cmd without the test of line 74: it returns whatever the code was.
run_cmd_unchecked(cmd, acc, next, newfs) ==
    /\ rcst \in {"idle", "retry"}
    /\ \E rc \in Outcomes(cmd) :
         /\ lastCmd' = cmd /\ lastRc' = rc /\ lastAcc' = acc
         /\ runLog' = Logged(cmd)
         /\ pc' = next /\ rcst' = "idle" /\ attempts' = 0
         /\ fs' = IF rc \in acc THEN newfs ELSE fs
    /\ UNCHANGED <<rvars, dry_run, exc, exitStatus>>

\* One attempt of run_cmd (lines 70-79): subprocess.run, then return on an
\* acceptable code, else fall to the prompt of line 82.
run_cmd(cmd, acc, next, newfs) ==
    /\ rcst \in {"idle", "retry"}
    /\ \E rc \in Outcomes(cmd) :
         /\ lastCmd' = cmd /\ lastRc' = rc /\ lastAcc' = acc
         /\ runLog' = Logged(cmd)
         /\ IF rc \in acc
            THEN /\ pc' = next /\ rcst' = "idle" /\ attempts' = 0
                 /\ fs' = newfs
            ELSE /\ pc' = pc /\ rcst' = "prompt" /\ attempts' = attempts
                 /\ fs' = fs
    /\ UNCHANGED <<rvars, dry_run, exc, exitStatus>>

\* line 83: retry != "y"
retry_declined(raw) == lower(strip(raw)) # S_y

\* A prompt whose default is yes.
prompt_confirm_default_yes(raw) == lower(strip(raw)) # <<"n">>

\* lines 214-216
prompt_confirm(raw) == lower(strip(raw)) = S_y

\* The flag is not consulted.
skip_push_ignored(flag) == FALSE

\* lines 235, 284 and 176: "if dry_run" skips the prompt and the push
skip_push(flag) == flag

\* No prompt of the current operation has been answered yet.
NotAsked == <<"?">>
NoGates == [clone |-> NotAsked, mirror |-> NotAsked, backup |-> NotAsked,
            review |-> NotAsked, commit |-> NotAsked, hard |-> NotAsked,
            push |-> NotAsked]

\* The finally block has not begun.  began: it was entered; mounted: MOUNTED
\* as it found it; killed: kill_processes_using_path was called; untried:
\* the processes lsof listed that os.kill was not called for; detach:
\* hdiutil detach was issued; chdirFailed, rmFailed: the step failed;
\* killFailed: "no", "lsof" (line 113) or "os.kill" (lines 102-105); failed:
\* some step failed.
NoTd == [began |-> FALSE, mounted |-> FALSE, killed |-> FALSE, untried |-> 0,
         detach |-> FALSE, chdirFailed |-> FALSE,
         rmFailed |-> FALSE, killFailed |-> "no", failed |-> FALSE]

\* Nothing has happened yet.  bfgIssued: a BFG pass was issued; backupMade:
\* the backup was copied; created, removed: before the dependency check the
\* working directory was created, a stale review file or report was removed;
\* depsMissing: check_dependencies ended the run; toolMissing: the current
\* operation stopped at line 161.
NoHist == [bfgIssued |-> FALSE, backupMade |-> FALSE, created |-> FALSE,
           removed |-> FALSE, depsMissing |-> FALSE, toolMissing |-> FALSE]

\* What a history rewriter can leave of content r: nothing to replace, or a
\* rewritten history.
Rewritten(r) == IF r < MaxRev THEN {r, r + 1} ELSE {r}

\* ------------------------------------------------------------------- Init
Init ==
    /\ pc = "parse"
    /\ rcst = "idle" /\ attempts = 0
    /\ lastCmd = "none" /\ lastRc = 0 /\ lastAcc = {0}
    /\ branches = <<>>
    /\ dry_run \in BOOLEAN
    /\ MOUNTED = FALSE
    /\ cwd = "orig"
    /\ work_dir = "unset"
    /\ \E wd \in BOOLEAN, stale \in BOOLEAN, dmg \in BOOLEAN,
          c \in {"absent", "local"}, m \in {NoDir, 0, 1}, b \in {NoDir, 0, 1} :
         fs = [workdir  |-> wd,
               clone    |-> IF wd THEN c ELSE "absent",
               mirror   |-> IF wd THEN m ELSE NoDir,
               backup   |-> IF wd THEN b ELSE NoDir,
               remote   |-> 0,
               dmg      |-> dmg,
               attached |-> FALSE,
               gfr      |-> FALSE,
               vmirror  |-> NoDir,
               secrets  |-> wd /\ stale,
               report   |-> IF wd /\ stale THEN "work" ELSE "none",
               vsecrets |-> FALSE,
               vreport  |-> "none"]
    /\ exc = "none"
    /\ exitStatus = NoStatus
    /\ gates = NoGates
    /\ runLog = <<>>
    /\ td = NoTd
    /\ hist = NoHist
    /\ xpc = "off"
    /\ report_json = [t |-> "invalid"]
    /\ secrets_list = <<>>
    /\ secrets_txt = <<>>

\* ------------------------------------------------------------ main: setup
\* lines 348-369: logging, argument parsing, work_dir = "<name>-gitclean"
main_parse ==
    /\ pc = "parse"
    /\ Step("makedirs")
    /\ work_dir' = "rel"
    /\ UNCHANGED <<branches, MOUNTED, cwd, fs, gates, runLog, hist>>

\* line 370: os.makedirs(work_dir, exist_ok=True)
main_makedirs ==
    /\ pc = "makedirs"
    /\ Step("abspath")
    /\ fs' = [fs EXCEPT !.workdir = TRUE]
    /\ hist' = [hist EXCEPT !.created = ~fs.workdir]
    /\ UNCHANGED <<branches, MOUNTED, cwd, work_dir, gates, runLog>>

\* lines 371-372: work_dir = os.path.abspath(work_dir); os.chdir(work_dir)
main_chdir_work ==
    /\ pc = "abspath"
    /\ Step("rm_stale")
    /\ work_dir' = "abs"
    /\ cwd' = "work"
    /\ UNCHANGED <<branches, MOUNTED, fs, gates, runLog, hist>>

\* lines 374-381: remove secrets.txt and gitleaks-report.json of an earlier run
main_remove_stale ==
    /\ pc = "rm_stale"
    /\ Step("deps")
    /\ fs' = [fs EXCEPT !.secrets = FALSE, !.report = "none"]
    /\ hist' = [hist EXCEPT !.removed = fs.secrets \/ fs.report # "none"]
    /\ UNCHANGED <<branches, MOUNTED, cwd, work_dir, gates, runLog>>

\* lines 314-344: a missing tool or an unreachable docker daemon ends in
\* exit(1).  What preceded the check is remembered for that abort only.
check_dependencies ==
    /\ pc = "deps"
    /\ rcst = "idle"
    /\ \E ok \in BOOLEAN :
         IF ok
         THEN /\ Step("clone")
              /\ hist' = [hist EXCEPT !.created = FALSE, !.removed = FALSE]
         ELSE /\ Exit("exit1")
              /\ hist' = [hist EXCEPT !.depsMissing = TRUE]
    /\ UNCHANGED <<branches, MOUNTED, cwd, work_dir, fs, gates, runLog>>

\* Enter taken as "discard".
setup_answer_default_discard(raw) ==
    IF strip(raw) = <<>> THEN S_discard ELSE lower(strip(raw))

\* The answer the three setup prompts compare (lines 411, 439, 457).
setup_answer(raw) == lower(strip(raw))

\* lines 401-405
main_clone ==
    /\ pc = "clone"
    /\ IF fs.clone = "absent"
       THEN run_cmd("git clone", DefaultCodes, "mirror",
                    [fs EXCEPT !.clone = "synced"])
       ELSE Step("clone_ask") /\ UNCHANGED <<fs, runLog>>
    /\ UNCHANGED <<branches, MOUNTED, cwd, work_dir, gates, hist, td>>

\* lines 406-427
main_clone_ask ==
    /\ pc = "clone_ask"
    /\ rcst = "idle"
    /\ \E raw \in SetupInputs :
         LET response == setup_answer(raw) IN
         /\ gates' = [gates EXCEPT !.clone = raw]
         /\ CASE response = S_restore -> Step("restore_reset")
              [] response = S_discard -> Step("clone_rmtree")
              [] response = S_exit    -> Exit("exit0")
              [] OTHER                 -> Step("mirror")
    /\ UNCHANGED <<branches, MOUNTED, cwd, work_dir, fs, runLog, hist>>

\* line 415
main_restore_reset ==
    /\ pc = "restore_reset"
    /\ run_cmd("git reset --hard", DefaultCodes, "restore_clean",
               [fs EXCEPT !.clone = "reset"])
    /\ UNCHANGED <<branches, MOUNTED, cwd, work_dir, gates, hist, td>>

\* line 416
main_restore_clean ==
    /\ pc = "restore_clean"
    /\ run_cmd("git clean -fd", DefaultCodes, "restore_pull",
               [fs EXCEPT !.clone = "cleaned"])
    /\ UNCHANGED <<branches, MOUNTED, cwd, work_dir, gates, hist, td>>

\* line 417
main_restore_pull ==
    /\ pc = "restore_pull"
    /\ run_cmd("git pull", DefaultCodes, "mirror",
               [fs EXCEPT !.clone = "synced"])
    /\ UNCHANGED <<branches, MOUNTED, cwd, work_dir, gates, hist, td>>

\* line 420
main_clone_rmtree ==
    /\ pc = "clone_rmtree"
    /\ Step("clone_reclone")
    /\ fs' = [fs EXCEPT !.clone = "absent"]
    /\ UNCHANGED <<branches, MOUNTED, cwd, work_dir, gates, runLog, hist>>

\* line 422
main_clone_reclone ==
    /\ pc = "clone_reclone"
    /\ run_cmd("git clone", DefaultCodes, "mirror",
               [fs EXCEPT !.clone = "synced"])
    /\ UNCHANGED <<branches, MOUNTED, cwd, work_dir, gates, hist, td>>

\* lines 429-434
main_mirror ==
    /\ pc = "mirror"
    /\ IF fs.mirror = NoDir
       THEN run_cmd("git clone --mirror", DefaultCodes, "backup",
                    [fs EXCEPT !.mirror = fs.remote])
       ELSE Step("mirror_ask") /\ UNCHANGED <<fs, runLog>>
    /\ UNCHANGED <<branches, MOUNTED, cwd, work_dir, gates, hist, td>>

\* lines 435-448
main_mirror_ask ==
    /\ pc = "mirror_ask"
    /\ rcst = "idle"
    /\ \E raw \in SetupInputs :
         LET response == setup_answer(raw) IN
         /\ gates' = [gates EXCEPT !.mirror = raw]
         /\ CASE response = S_discard -> Step("mirror_rmtree")
              [] response = S_exit    -> Exit("exit0")
              [] OTHER                 -> Step("backup")
    /\ UNCHANGED <<branches, MOUNTED, cwd, work_dir, fs, runLog, hist>>

\* line 443
main_mirror_rmtree ==
    /\ pc = "mirror_rmtree"
    /\ Step("mirror_reclone")
    /\ fs' = [fs EXCEPT !.mirror = NoDir]
    /\ UNCHANGED <<branches, MOUNTED, cwd, work_dir, gates, runLog, hist>>

\* line 445
main_mirror_reclone ==
    /\ pc = "mirror_reclone"
    /\ run_cmd("git clone --mirror", DefaultCodes, "backup",
               [fs EXCEPT !.mirror = fs.remote])
    /\ UNCHANGED <<branches, MOUNTED, cwd, work_dir, gates, hist, td>>

\* The backup taken from the remote, not from the mirror on disk.
copytree_remote == fs.remote

\* lines 463 and 469: shutil.copytree(mirror_dir, backup_dir)
copytree_mirror == fs.mirror

\* lines 450-452 and 467-469
main_backup ==
    /\ pc = "backup"
    /\ IF fs.backup # NoDir
       THEN Step("backup_ask") /\ UNCHANGED <<fs, hist>>
       ELSE /\ Step("bfg")
            /\ fs' = [fs EXCEPT !.backup = copytree_mirror]
            /\ hist' = [hist EXCEPT !.backupMade = TRUE]
    /\ UNCHANGED <<branches, MOUNTED, cwd, work_dir, gates, runLog>>

\* lines 453-466
main_backup_ask ==
    /\ pc = "backup_ask"
    /\ rcst = "idle"
    /\ \E raw \in SetupInputs :
         LET response == setup_answer(raw) IN
         /\ gates' = [gates EXCEPT !.backup = raw]
         /\ CASE response = S_discard -> Step("backup_rmtree")
              [] response = S_exit    -> Exit("exit0")
              [] OTHER                 -> Step("bfg")
    /\ UNCHANGED <<branches, MOUNTED, cwd, work_dir, fs, runLog, hist>>

\* The discard branch without line 461: the old backup is left in place.
main_backup_rmtree_kept ==
    /\ pc = "backup_rmtree"
    /\ Step("backup_copytree")
    /\ UNCHANGED <<branches, MOUNTED, cwd, work_dir, fs, gates, runLog, hist>>

\* line 461
main_backup_rmtree ==
    /\ pc = "backup_rmtree"
    /\ Step("backup_copytree")
    /\ fs' = [fs EXCEPT !.backup = NoDir]
    /\ UNCHANGED <<branches, MOUNTED, cwd, work_dir, gates, runLog, hist>>

\* line 463
main_backup_copytree ==
    /\ pc = "backup_copytree"
    /\ Step("bfg")
    /\ fs' = [fs EXCEPT !.backup = copytree_mirror]
    /\ hist' = [hist EXCEPT !.backupMade = TRUE]
    /\ UNCHANGED <<branches, MOUNTED, cwd, work_dir, gates, runLog>>

\* lines 471-472 and 295-312: --bfg, the cached jar, or a download that may
\* end in SystemExit(1)
download_bfg ==
    /\ pc = "bfg"
    /\ rcst = "idle"
    /\ \E ok \in BOOLEAN :
         IF ok THEN Step("menu") ELSE Exit("exit1")
    /\ UNCHANGED <<branches, MOUNTED, cwd, work_dir, fs, gates, runLog, hist>>

\* ------------------------------------------------------------- main: menu
\* line 480
menu_choice(raw) == strip(raw)

\* lines 474-481 and 500-505
main_menu ==
    /\ pc = "menu"
    /\ rcst = "idle"
    /\ \E raw \in MenuInputs :
         LET response == menu_choice(raw) IN
         CASE response = <<"1">> -> Step("branches_input")
              [] response = <<"2">> -> Step("cch_chdir")
              [] response = <<"3">> -> Step("gfr_dmg")
              [] response = <<"4">> -> Exit("exit0")
              [] OTHER               -> Step("menu")
    /\ gates' = NoGates
    /\ runLog' = <<>>
    /\ hist' = [hist EXCEPT !.toolMissing = FALSE]
    /\ UNCHANGED <<branches, MOUNTED, cwd, work_dir, fs>>

\* lines 483-488
main_branches_input ==
    /\ pc = "branches_input"
    /\ rcst = "idle"
    /\ \E raw \in BranchInputs :
         LET branches_input == strip(raw) IN
         IF branches_input = <<>>
         THEN branches' = <<>> /\ Step("menu")
         ELSE /\ branches' = parse_branches(branches_input)
              /\ IF branches' = <<>> THEN Step("menu") ELSE Step("cwdir_chdir")
    /\ UNCHANGED <<MOUNTED, cwd, work_dir, fs, gates, runLog, hist>>

\* ----------------------------------------------- clean_working_directory
\* lines 49-53
docker_gitleaks_dir(next) == run_cmd("gitleaks dir", ScannerCodes, next, fs)

\* line 219: os.chdir(repo_path), the relative name of the working clone
cwdir_chdir ==
    /\ pc = "cwdir_chdir"
    /\ rcst = "idle"
    /\ IF cwd = "work" /\ fs.clone # "absent"
       THEN Step("cwdir_checkout") /\ cwd' = "clone"
       ELSE Exit("Exception") /\ cwd' = cwd
    /\ gates' = NoGates
    /\ runLog' = <<>>
    /\ UNCHANGED <<branches, MOUNTED, work_dir, fs, hist>>

\* line 221
cwdir_checkout ==
    /\ pc = "cwdir_checkout"
    /\ run_cmd("git checkout", DefaultCodes, "cwdir_scan",
               [fs EXCEPT !.clone = "local"])
    /\ UNCHANGED <<branches, MOUNTED, cwd, work_dir, gates, hist, td>>

\* line 223
cwdir_scan ==
    /\ pc = "cwdir_scan"
    /\ docker_gitleaks_dir("cwdir_gate")
    /\ UNCHANGED <<branches, MOUNTED, cwd, work_dir, gates, hist, td>>

\* lines 227-228: response.strip().lower() == "exit"
cwdir_aborts(raw) == lower(strip(raw)) = S_exit

\* lines 225-230
cwdir_gate ==
    /\ pc = "cwdir_gate"
    /\ rcst = "idle"
    /\ \E raw \in GateInputs :
         /\ gates' = [gates EXCEPT !.review = raw]
         /\ IF cwdir_aborts(raw) THEN Exit("exit0") ELSE Step("cwdir_rescan")
    /\ UNCHANGED <<branches, MOUNTED, cwd, work_dir, fs, runLog, hist>>

\* line 233
cwdir_rescan ==
    /\ pc = "cwdir_rescan"
    /\ docker_gitleaks_dir("cwdir_confirm")
    /\ UNCHANGED <<branches, MOUNTED, cwd, work_dir, gates, hist, td>>

\* lines 235-244
cwdir_confirm ==
    /\ pc = "cwdir_confirm"
    /\ rcst = "idle"
    /\ IF skip_push(dry_run)
       THEN Step("cwdir_up") /\ UNCHANGED gates
       ELSE \E raw \in YesNoInputs :
              /\ gates' = [gates EXCEPT !.commit = raw]
              /\ IF prompt_confirm(raw) THEN Step("cwdir_add") ELSE Step("cwdir_up")
    /\ UNCHANGED <<branches, MOUNTED, cwd, work_dir, fs, runLog, hist>>

\* line 240
cwdir_add ==
    /\ pc = "cwdir_add"
    /\ run_cmd("git add", DefaultCodes, "cwdir_commit", fs)
    /\ UNCHANGED <<branches, MOUNTED, cwd, work_dir, gates, hist, td>>

\* line 241
cwdir_commit ==
    /\ pc = "cwdir_commit"
    /\ run_cmd("git commit", DefaultCodes, "cwdir_push",
               [fs EXCEPT !.clone = "local"])
    /\ UNCHANGED <<branches, MOUNTED, cwd, work_dir, gates, hist, td>>

\* line 242
cwdir_push ==
    /\ pc = "cwdir_push"
    /\ run_cmd("git push origin", DefaultCodes, "cwdir_up",
               [fs EXCEPT !.clone = "synced",
                          !.remote = IF @ < MaxRev THEN @ + 1 ELSE @])
    /\ UNCHANGED <<branches, MOUNTED, cwd, work_dir, gates, hist, td>>

\* line 245, and the for loop of lines 488-490
cwdir_up ==
    /\ pc = "cwdir_up"
    /\ cwd' = "work"
    /\ branches' = Tail(branches)
    /\ IF branches' = <<>> THEN Step("menu") ELSE Step("cwdir_chdir")
    /\ UNCHANGED <<MOUNTED, work_dir, fs, gates, runLog, hist>>

\* -------------------------------------------------- clean_commit_history
\* lines 55-64: the scan of a bare mirror, with a report file (-r), verbose,
\* or neither
docker_gitleaks_git(report_path, verbose, next, newfs) ==
    run_cmd(IF report_path THEN "gitleaks git -r"
            ELSE IF verbose THEN "gitleaks git --verbose" ELSE "gitleaks git",
            ScannerCodes, next, newfs)

\* line 262: response == "exit", compared as typed
cch_aborts(raw) == raw = S_exit

\* line 248: os.chdir(mirror_path), an absolute path
cch_chdir ==
    /\ pc = "cch_chdir"
    /\ rcst = "idle"
    /\ IF fs.mirror # NoDir
       THEN Step("cch_scan") /\ cwd' = "mirror"
       ELSE Exit("Exception") /\ cwd' = cwd
    /\ UNCHANGED <<branches, MOUNTED, work_dir, fs, gates, runLog, hist>>

\* lines 249-251
cch_scan ==
    /\ pc = "cch_scan"
    /\ docker_gitleaks_git(TRUE, FALSE, "cch_extract", [fs EXCEPT !.report = "mirror"])
    /\ UNCHANGED <<branches, MOUNTED, cwd, work_dir, gates, hist, td>>

\* lines 253-254: get_secrets_from_report, write_secrets_txt
cch_extract ==
    /\ pc = "cch_extract"
    /\ rcst = "idle"
    /\ IF fs.report = "mirror"
       THEN /\ Step("cch_move")
            /\ fs' = [fs EXCEPT !.secrets = TRUE]
            /\ runLog' = Logged("write secrets.txt")
       ELSE Exit("Exception") /\ UNCHANGED <<fs, runLog>>
    /\ UNCHANGED <<branches, MOUNTED, cwd, work_dir, gates, hist>>

\* line 256
cch_move ==
    /\ pc = "cch_move"
    /\ Step("cch_gate")
    /\ fs' = [fs EXCEPT !.report = "work"]
    /\ UNCHANGED <<branches, MOUNTED, cwd, work_dir, gates, runLog, hist>>

\* lines 258-264
cch_gate ==
    /\ pc = "cch_gate"
    /\ rcst = "idle"
    /\ \E raw \in GateInputs :
         /\ gates' = [gates EXCEPT !.review = raw]
         /\ IF cch_aborts(raw) THEN Exit("exit0") ELSE Step("cch_bfg")
    /\ runLog' = Logged("review gate")
    /\ UNCHANGED <<branches, MOUNTED, cwd, work_dir, fs, hist>>

\* BFG pointed at the backup instead of the mirror.
cch_bfg_on_backup ==
    /\ pc = "cch_bfg"
    /\ \E r \in Rewritten(fs.backup) :
         run_cmd("bfg", DefaultCodes, "cch_reflog", [fs EXCEPT !.backup = r])
    /\ hist' = [hist EXCEPT !.bfgIssued = TRUE]
    /\ UNCHANGED <<branches, MOUNTED, cwd, work_dir, gates, td>>

\* line 266
cch_bfg ==
    /\ pc = "cch_bfg"
    /\ \E r \in Rewritten(fs.mirror) :
         run_cmd("bfg", DefaultCodes, "cch_reflog", [fs EXCEPT !.mirror = r])
    /\ hist' = [hist EXCEPT !.bfgIssued = TRUE]
    /\ UNCHANGED <<branches, MOUNTED, cwd, work_dir, gates, td>>

\* line 268
cch_reflog ==
    /\ pc = "cch_reflog"
    /\ run_cmd("git reflog expire", DefaultCodes, "cch_gc", fs)
    /\ UNCHANGED <<branches, MOUNTED, cwd, work_dir, gates, hist, td>>

\* line 269
cch_gc ==
    /\ pc = "cch_gc"
    /\ run_cmd("git gc", DefaultCodes, "cch_rescan", fs)
    /\ UNCHANGED <<branches, MOUNTED, cwd, work_dir, gates, hist, td>>

\* line 271
cch_rescan ==
    /\ pc = "cch_rescan"
    /\ docker_gitleaks_git(FALSE, TRUE, "cch_hard_ask", fs)
    /\ UNCHANGED <<branches, MOUNTED, cwd, work_dir, gates, hist, td>>

\* lines 273-275 and 281-282
cch_hard_ask ==
    /\ pc = "cch_hard_ask"
    /\ rcst = "idle"
    /\ \E raw \in YesNoInputs :
         /\ gates' = [gates EXCEPT !.hard = raw]
         /\ IF prompt_confirm(raw) THEN Step("cch_hard_bfg") ELSE Step("cch_push_ask")
    /\ UNCHANGED <<branches, MOUNTED, cwd, work_dir, fs, runLog, hist>>

\* line 276
cch_hard_bfg ==
    /\ pc = "cch_hard_bfg"
    /\ \E r \in Rewritten(fs.mirror) :
         run_cmd("bfg --no-blob-protection", DefaultCodes, "cch_hard_reflog",
                 [fs EXCEPT !.mirror = r])
    /\ hist' = [hist EXCEPT !.bfgIssued = TRUE]
    /\ UNCHANGED <<branches, MOUNTED, cwd, work_dir, gates, td>>

\* line 278
cch_hard_reflog ==
    /\ pc = "cch_hard_reflog"
    /\ run_cmd("git reflog expire", DefaultCodes, "cch_hard_gc", fs)
    /\ UNCHANGED <<branches, MOUNTED, cwd, work_dir, gates, hist, td>>

\* The hard-mode pass without its git gc.
cch_hard_gc_skipped ==
    /\ pc = "cch_hard_gc"
    /\ Step("cch_hard_scan")
    /\ UNCHANGED <<branches, MOUNTED, cwd, work_dir, fs, gates, runLog, hist>>

\* line 279
cch_hard_gc ==
    /\ pc = "cch_hard_gc"
    /\ run_cmd("git gc", DefaultCodes, "cch_hard_scan", fs)
    /\ UNCHANGED <<branches, MOUNTED, cwd, work_dir, gates, hist, td>>

\* line 280
cch_hard_scan ==
    /\ pc = "cch_hard_scan"
    /\ docker_gitleaks_git(FALSE, FALSE, "cch_push_ask", fs)
    /\ UNCHANGED <<branches, MOUNTED, cwd, work_dir, gates, hist, td>>

\* lines 284-292
cch_push_ask ==
    /\ pc = "cch_push_ask"
    /\ rcst = "idle"
    /\ IF skip_push(dry_run)
       THEN Step("cch_up") /\ UNCHANGED gates
       ELSE \E raw \in YesNoInputs :
              /\ gates' = [gates EXCEPT !.push = raw]
              /\ IF prompt_confirm(raw) THEN Step("cch_push_all") ELSE Step("cch_up")
    /\ UNCHANGED <<branches, MOUNTED, cwd, work_dir, fs, runLog, hist>>

\* line 289
cch_push_all ==
    /\ pc = "cch_push_all"
    /\ run_cmd("git push --force --all", DefaultCodes, "cch_push_tags",
               [fs EXCEPT !.remote = fs.mirror])
    /\ UNCHANGED <<branches, MOUNTED, cwd, work_dir, gates, hist, td>>

\* line 290
cch_push_tags ==
    /\ pc = "cch_push_tags"
    /\ run_cmd("git push --force --tags", DefaultCodes, "cch_up",
               [fs EXCEPT !.remote = fs.mirror])
    /\ UNCHANGED <<branches, MOUNTED, cwd, work_dir, gates, hist, td>>

\* line 293
cch_up ==
    /\ pc = "cch_up"
    /\ Step("menu")
    /\ cwd' = "work"
    /\ UNCHANGED <<branches, MOUNTED, work_dir, fs, gates, runLog, hist>>

\* -------------------------------------------------------- gitfilter_repo
\* lines 118-129
gfr_dmg ==
    /\ pc = "gfr_dmg"
    /\ IF fs.dmg
       THEN Step("gfr_attach") /\ UNCHANGED <<fs, runLog>>
       ELSE run_cmd("hdiutil create", DefaultCodes, "gfr_attach",
                    [fs EXCEPT !.dmg = TRUE])
    /\ UNCHANGED <<branches, MOUNTED, cwd, work_dir, gates, hist, td>>

\* lines 131-132
gfr_attach ==
    /\ pc = "gfr_attach"
    /\ run_cmd("hdiutil attach", DefaultCodes, "gfr_set_mounted",
               [fs EXCEPT !.attached = TRUE])
    /\ UNCHANGED <<branches, MOUNTED, cwd, work_dir, gates, hist, td>>

\* line 133
gfr_set_mounted ==
    /\ pc = "gfr_set_mounted"
    /\ Step("gfr_chdir_volume")
    /\ MOUNTED' = TRUE
    /\ UNCHANGED <<branches, cwd, work_dir, fs, gates, runLog, hist>>

\* line 135
gfr_chdir_volume ==
    /\ pc = "gfr_chdir_volume"
    /\ rcst = "idle"
    /\ IF fs.attached
       THEN Step("gfr_makedirs") /\ cwd' = "volume"
       ELSE Exit("Exception") /\ cwd' = cwd
    /\ UNCHANGED <<branches, MOUNTED, work_dir, fs, gates, runLog, hist>>

\* line 136
gfr_makedirs ==
    /\ pc = "gfr_makedirs"
    /\ Step("gfr_chdir_gfr")
    /\ fs' = [fs EXCEPT !.gfr = TRUE]
    /\ UNCHANGED <<branches, MOUNTED, cwd, work_dir, gates, runLog, hist>>

\* line 137
gfr_chdir_gfr ==
    /\ pc = "gfr_chdir_gfr"
    /\ Step("gfr_clone")
    /\ cwd' = "gfr"
    /\ UNCHANGED <<branches, MOUNTED, work_dir, fs, gates, runLog, hist>>

\* lines 139-140
gfr_clone ==
    /\ pc = "gfr_clone"
    /\ run_cmd("vol git clone --mirror", DefaultCodes, "gfr_chdir_mirror",
               [fs EXCEPT !.vmirror = fs.remote])
    /\ UNCHANGED <<branches, MOUNTED, cwd, work_dir, gates, hist, td>>

\* lines 142-146
gfr_chdir_mirror ==
    /\ pc = "gfr_chdir_mirror"
    /\ Step("gfr_scan")
    /\ cwd' = "vmirror"
    /\ UNCHANGED <<branches, MOUNTED, work_dir, fs, gates, runLog, hist>>

\* lines 147-148
gfr_scan ==
    /\ pc = "gfr_scan"
    /\ docker_gitleaks_git(TRUE, FALSE, "gfr_extract", [fs EXCEPT !.vreport = "vmirror"])
    /\ UNCHANGED <<branches, MOUNTED, cwd, work_dir, gates, hist, td>>

\* lines 150-151
gfr_extract ==
    /\ pc = "gfr_extract"
    /\ rcst = "idle"
    /\ IF fs.vreport = "vmirror"
       THEN /\ Step("gfr_move")
            /\ fs' = [fs EXCEPT !.vsecrets = TRUE]
            /\ runLog' = Logged("write secrets.txt")
       ELSE Exit("Exception") /\ UNCHANGED <<fs, runLog>>
    /\ UNCHANGED <<branches, MOUNTED, cwd, work_dir, gates, hist>>

\* line 153
gfr_move ==
    /\ pc = "gfr_move"
    /\ Step("gfr_gate")
    /\ fs' = [fs EXCEPT !.vreport = "gfr"]
    /\ UNCHANGED <<branches, MOUNTED, cwd, work_dir, gates, runLog, hist>>

\* line 157: response.strip().lower() == "exit"
gfr_aborts(raw) == lower(strip(raw)) = S_exit

\* lines 155-159: the review gate; an abort returns to the menu
gfr_gate ==
    /\ pc = "gfr_gate"
    /\ rcst = "idle"
    /\ \E raw \in GateInputs :
         /\ gates' = [gates EXCEPT !.review = raw]
         /\ IF gfr_aborts(raw) THEN Step("menu") ELSE Step("gfr_which")
    /\ runLog' = Logged("review gate")
    /\ UNCHANGED <<branches, MOUNTED, cwd, work_dir, fs, hist>>

\* lines 161-163: shutil.which("git-filter-repo")
gfr_which ==
    /\ pc = "gfr_which"
    /\ \E found \in BOOLEAN :
         IF found
         THEN Step("gfr_filter") /\ hist' = hist
         ELSE Step("menu") /\ hist' = [hist EXCEPT !.toolMissing = TRUE]
    /\ UNCHANGED <<branches, MOUNTED, cwd, work_dir, fs, gates, runLog>>

\* lines 165-169
gfr_filter ==
    /\ pc = "gfr_filter"
    /\ \E r \in Rewritten(fs.vmirror) :
         run_cmd("git-filter-repo", DefaultCodes, "gfr_reflog",
                 [fs EXCEPT !.vmirror = r])
    /\ UNCHANGED <<branches, MOUNTED, cwd, work_dir, gates, hist, td>>

\* line 171
gfr_reflog ==
    /\ pc = "gfr_reflog"
    /\ run_cmd("git reflog expire", DefaultCodes, "gfr_gc", fs)
    /\ UNCHANGED <<branches, MOUNTED, cwd, work_dir, gates, hist, td>>

\* line 172
gfr_gc ==
    /\ pc = "gfr_gc"
    /\ run_cmd("git gc", DefaultCodes, "gfr_rescan", fs)
    /\ UNCHANGED <<branches, MOUNTED, cwd, work_dir, gates, hist, td>>

\* line 174
gfr_rescan ==
    /\ pc = "gfr_rescan"
    /\ docker_gitleaks_git(FALSE, TRUE, "gfr_push_ask", fs)
    /\ UNCHANGED <<branches, MOUNTED, cwd, work_dir, gates, hist, td>>

\* lines 176-183
gfr_push_ask ==
    /\ pc = "gfr_push_ask"
    /\ rcst = "idle"
    /\ IF skip_push(dry_run)
       THEN Step("gfr_up") /\ UNCHANGED gates
       ELSE \E raw \in YesNoInputs :
              /\ gates' = [gates EXCEPT !.push = raw]
              /\ IF prompt_confirm(raw) THEN Step("gfr_push_all") ELSE Step("gfr_up")
    /\ UNCHANGED <<branches, MOUNTED, cwd, work_dir, fs, runLog, hist>>

\* line 180
gfr_push_all ==
    /\ pc = "gfr_push_all"
    /\ run_cmd("git push --force --all", DefaultCodes, "gfr_push_tags",
               [fs EXCEPT !.remote = fs.vmirror])
    /\ UNCHANGED <<branches, MOUNTED, cwd, work_dir, gates, hist, td>>

\* line 181
gfr_push_tags ==
    /\ pc = "gfr_push_tags"
    /\ run_cmd("git push --force --tags", DefaultCodes, "gfr_up",
               [fs EXCEPT !.remote = fs.vmirror])
    /\ UNCHANGED <<branches, MOUNTED, cwd, work_dir, gates, hist, td>>

\* line 186
gfr_up ==
    /\ pc = "gfr_up"
    /\ Step("gfr_rmtree")
    /\ cwd' = "gfr"
    /\ UNCHANGED <<branches, MOUNTED, work_dir, fs, gates, runLog, hist>>

\* lines 187-188
gfr_rmtree ==
    /\ pc = "gfr_rmtree"
    /\ Step("gfr_chdir_work")
    /\ fs' = [fs EXCEPT !.gfr = FALSE, !.vmirror = NoDir, !.vsecrets = FALSE,
                        !.vreport = "none"]
    /\ UNCHANGED <<branches, MOUNTED, cwd, work_dir, gates, runLog, hist>>

\* Line 190 without line 191: the process stays in the volume.
gfr_chdir_volume_only ==
    /\ pc = "gfr_chdir_work"
    /\ Step("gfr_kill")
    /\ cwd' = "volume"
    /\ UNCHANGED <<branches, MOUNTED, work_dir, fs, gates, runLog, hist>>

\* lines 190-191
gfr_chdir_work ==
    /\ pc = "gfr_chdir_work"
    /\ Step("gfr_kill")
    /\ cwd' = "work"
    /\ UNCHANGED <<branches, MOUNTED, work_dir, fs, gates, runLog, hist>>

\* lines 192-193: kill_processes_using_path(volume_path), which catches
\* every Exception of its own (lines 86-114)
gfr_kill ==
    /\ pc = "gfr_kill"
    /\ Step("gfr_detach")
    /\ UNCHANGED <<branches, MOUNTED, cwd, work_dir, fs, gates, runLog, hist>>

\* lines 195-196
gfr_detach ==
    /\ pc = "gfr_detach"
    /\ run_cmd("hdiutil detach", DefaultCodes, "gfr_unset_mounted",
               [fs EXCEPT !.attached = FALSE])
    /\ UNCHANGED <<branches, MOUNTED, cwd, work_dir, gates, hist, td>>

\* line 197
gfr_unset_mounted ==
    /\ pc = "gfr_unset_mounted"
    /\ Step("menu")
    /\ MOUNTED' = FALSE
    /\ UNCHANGED <<branches, cwd, work_dir, fs, gates, runLog, hist>>

\* ------------------------------------------------ run_cmd's retry prompt
\* lines 81-84: input(); anything but "y" is exit(1).  In the try block the
\* SystemExit enters the finally block; raised by the detach of line 536 it
\* passes "except Exception" (line 537) and leaves main().
run_cmd_retry ==
    /\ rcst = "prompt"
    /\ pc # "done"
    /\ \E raw \in YesNoInputs :
         IF retry_declined(raw)
         THEN IF pc = "t_detach"
              THEN /\ pc' = "done" /\ exitStatus' = 1 /\ exc' = exc
                   /\ rcst' = "idle" /\ attempts' = 0
                   /\ lastCmd' = "none" /\ lastRc' = 0 /\ lastAcc' = {0}
              ELSE /\ pc' = "t_chdir" /\ exc' = "exit1" /\ exitStatus' = exitStatus
                   /\ rcst' = "idle" /\ attempts' = 0
                   /\ lastCmd' = "none" /\ lastRc' = 0 /\ lastAcc' = {0}
         ELSE /\ attempts < MaxAttempts
              /\ rcst' = "retry" /\ attempts' = attempts + 1
              /\ UNCHANGED <<pc, exc, exitStatus, lastCmd, lastRc, lastAcc>>
    /\ UNCHANGED <<branches, dry_run, MOUNTED, cwd, work_dir, fs, gates, runLog,
                   td, hist, rvars>>

\* ------------------------------------------- leaving the try block early
\* The try block is left for good: the record of its current operation and
\* the pending branch list are dropped.
Closed ==
    /\ branches' = <<>>
    /\ gates' = NoGates
    /\ runLog' = <<>>
    /\ hist' = NoHist

\* The statements of the try block that touch the file system or read
\* stdin: each can raise (OSError, EOFError), which line 510 catches.
FalliblePcs ==
    {"makedirs", "abspath", "rm_stale", "clone_ask", "clone_rmtree", "mirror_ask",
     "mirror_rmtree", "backup", "backup_ask", "backup_rmtree", "backup_copytree",
     "menu", "branches_input", "cwdir_gate", "cwdir_confirm", "cwdir_up",
     "cch_extract", "cch_move", "cch_gate", "cch_hard_ask", "cch_push_ask",
     "gfr_makedirs", "gfr_extract", "gfr_move", "gfr_gate", "gfr_push_ask",
     "gfr_rmtree", "gfr_chdir_work"}

\* lines 510-512
unhandled_exception ==
    /\ InWorkflow
    /\ pc \in FalliblePcs \/ rcst = "prompt"
    /\ Exit("Exception")
    /\ Closed
    /\ UNCHANGED <<MOUNTED, cwd, work_dir, fs>>

\* Ctrl-C ending the process with no finally block run.
keyboard_interrupt_uncaught ==
    /\ InWorkflow
    /\ pc' = "done" /\ exc' = "KeyboardInterrupt" /\ exitStatus' = 1
    /\ rcst' = "idle" /\ attempts' = 0
    /\ lastCmd' = "none" /\ lastRc' = 0 /\ lastAcc' = {0}
    /\ Closed
    /\ UNCHANGED <<rvars, dry_run, td, MOUNTED, cwd, work_dir, fs>>

\* lines 507-509: Ctrl-C between any two statements of the try block
keyboard_interrupt ==
    /\ InWorkflow
    /\ Exit("KeyboardInterrupt")
    /\ Closed
    /\ UNCHANGED <<MOUNTED, cwd, work_dir, fs>>

\* ------------------------------------------------ main: the finally block
TStep(next) ==
    /\ pc' = next
    /\ rcst' = "idle" /\ attempts' = 0
    /\ lastCmd' = "none" /\ lastRc' = 0 /\ lastAcc' = {0}
    /\ UNCHANGED <<rvars, dry_run, exc, exitStatus>>

\* lines 513-519: os.chdir(work_dir) under a bare except
teardown_chdir ==
    /\ pc = "t_chdir"
    /\ TStep("t_rmtree")
    /\ \E ok \in BOOLEAN :
         LET done == /\ ok
                     /\ fs.workdir
                     /\ work_dir = "abs" \/ (work_dir = "rel" /\ cwd = "orig")
         IN /\ cwd' = IF done THEN "work" ELSE cwd
            /\ td' = [td EXCEPT !.began = TRUE, !.mounted = MOUNTED,
                                !.chdirFailed = ~done]
    /\ Closed
    /\ UNCHANGED <<MOUNTED, work_dir, fs>>

\* lines 521-530: remove a leftover gitfilter-repo directory; a failure is
\* logged
teardown_rmtree ==
    /\ pc = "t_rmtree"
    /\ TStep("t_mounted")
    /\ IF fs.attached /\ fs.gfr
       THEN \E ok \in BOOLEAN :
              IF ok
              THEN /\ fs' = [fs EXCEPT !.gfr = FALSE, !.vmirror = NoDir,
                                       !.vsecrets = FALSE, !.vreport = "none"]
                   /\ td' = td
              ELSE /\ fs' = fs
                   /\ td' = [td EXCEPT !.failed = TRUE, !.rmFailed = TRUE]
       ELSE UNCHANGED <<fs, td>>
    /\ UNCHANGED <<branches, MOUNTED, cwd, work_dir, gates, runLog, hist>>

\* The finally block without the test of line 532.
teardown_mounted_always ==
    /\ pc = "t_mounted"
    /\ TStep("t_kill")
    /\ UNCHANGED <<branches, MOUNTED, cwd, work_dir, fs, gates, runLog, hist, td>>

\* line 532
teardown_mounted ==
    /\ pc = "t_mounted"
    /\ IF MOUNTED THEN TStep("t_kill") ELSE TStep("t_end")
    /\ UNCHANGED <<branches, MOUNTED, cwd, work_dir, fs, gates, runLog, hist, td>>

\* What os.kill(pid, SIGKILL) ends with (lines 100-105).
KillOutcomes == {"killed", "ProcessLookupError", "PermissionError"}

\* A loop that gives up at the first process it cannot kill.
RECURSIVE kill_loop_break(_, _)
kill_loop_break(outcomes, i) ==
    IF i > Len(outcomes) THEN 0
    ELSE IF outcomes[i] # "killed" THEN 1
    ELSE 1 + kill_loop_break(outcomes, i + 1)

\* lines 97-105: the number of processes os.kill is called for; both
\* exceptions are caught inside the loop body, so the loop goes on
RECURSIVE kill_loop(_, _)
kill_loop(outcomes, i) ==
    IF i > Len(outcomes) THEN 0
    ELSE 1 + kill_loop(outcomes, i + 1)

\* lines 86-114, called at line 534: lsof raising is caught at line 113, a
\* process that is gone or not ours at lines 102-105
kill_processes_using_path ==
    /\ pc = "t_kill"
    /\ TStep("t_detach")
    /\ \/ td' = [td EXCEPT !.killed = TRUE, !.killFailed = "lsof",
                       !.failed = TRUE]
       \/ \E outcomes \in SeqsUpTo(KillOutcomes, MaxPids) :
            LET bad == \E i \in DOMAIN outcomes : outcomes[i] # "killed" IN
            td' = [td EXCEPT !.killed = TRUE,
                             !.untried = Len(outcomes) - kill_loop(outcomes, 1),
                             !.killFailed = IF bad THEN "os.kill" ELSE "no",
                             !.failed = @ \/ bad]
    /\ UNCHANGED <<branches, MOUNTED, cwd, work_dir, fs, gates, runLog, hist>>

\* lines 535-536
teardown_detach ==
    /\ pc = "t_detach"
    /\ run_cmd("hdiutil detach", DefaultCodes, "t_end", [fs EXCEPT !.attached = FALSE])
    /\ td' = [td EXCEPT !.detach = TRUE, !.failed = @ \/ lastRc' \notin lastAcc']
    /\ UNCHANGED <<branches, MOUNTED, cwd, work_dir, gates, hist>>

\* lines 537-538: input() of the retry prompt raising (EOFError) is caught
teardown_detach_caught ==
    /\ pc = "t_detach"
    /\ rcst = "prompt"
    /\ TStep("t_end")
    /\ UNCHANGED <<branches, MOUNTED, cwd, work_dir, fs, gates, runLog, hist, td>>

\* The finally block is over: SystemExit goes on to end the process with
\* its code; after either except clause main() returns.
teardown_end ==
    /\ pc = "t_end"
    /\ pc' = "done"
    /\ exitStatus' = StatusOf(exc)
    /\ rcst' = "idle" /\ attempts' = 0
    /\ lastCmd' = "none" /\ lastRc' = 0 /\ lastAcc' = {0}
    /\ UNCHANGED <<rvars, dry_run, exc, branches, MOUNTED, cwd, work_dir, fs, gates,
                   runLog, hist, td>>

\* ------------------------------------------------------- the specification
Next ==
    \/ main_parse \/ main_makedirs \/ main_chdir_work \/ main_remove_stale
    \/ check_dependencies
    \/ main_clone \/ main_clone_ask \/ main_restore_reset \/ main_restore_clean
    \/ main_restore_pull \/ main_clone_rmtree \/ main_clone_reclone
    \/ main_mirror \/ main_mirror_ask \/ main_mirror_rmtree \/ main_mirror_reclone
    \/ main_backup \/ main_backup_ask \/ main_backup_rmtree \/ main_backup_copytree
    \/ download_bfg
    \/ main_menu \/ main_branches_input
    \/ cwdir_chdir \/ cwdir_checkout \/ cwdir_scan \/ cwdir_gate \/ cwdir_rescan
    \/ cwdir_confirm \/ cwdir_add \/ cwdir_commit \/ cwdir_push \/ cwdir_up
    \/ cch_chdir \/ cch_scan \/ cch_extract \/ cch_move \/ cch_gate \/ cch_bfg
    \/ cch_reflog \/ cch_gc \/ cch_rescan \/ cch_hard_ask \/ cch_hard_bfg
    \/ cch_hard_reflog \/ cch_hard_gc \/ cch_hard_scan \/ cch_push_ask
    \/ cch_push_all \/ cch_push_tags \/ cch_up
    \/ gfr_dmg \/ gfr_attach \/ gfr_set_mounted \/ gfr_chdir_volume \/ gfr_makedirs
    \/ gfr_chdir_gfr \/ gfr_clone \/ gfr_chdir_mirror \/ gfr_scan \/ gfr_extract
    \/ gfr_move \/ gfr_gate \/ gfr_which \/ gfr_filter \/ gfr_reflog \/ gfr_gc
    \/ gfr_rescan \/ gfr_push_ask \/ gfr_push_all \/ gfr_push_tags \/ gfr_up
    \/ gfr_rmtree \/ gfr_chdir_work \/ gfr_kill \/ gfr_detach \/ gfr_unset_mounted
    \/ run_cmd_retry \/ unhandled_exception \/ keyboard_interrupt
    \/ teardown_chdir \/ teardown_rmtree \/ teardown_mounted
    \/ kill_processes_using_path \/ teardown_detach \/ teardown_detach_caught
    \/ teardown_end

Spec == Init /\ [][Next]_vars

\* ------------------------------------- the report and the review file
\* A JSON value is a record tagged t: "invalid" (json.load raises
\* JSONDecodeError), "null", "num", "str" (s: its characters), "obj" (keys:
\* its key set; Secret: the value under "Secret" when present) or "list"
\* (items).  A secret literal is a sequence of characters.
K_Secret == <<"S", "e", "c", "r", "e", "t">>
K_File   == <<"F", "i", "l", "e">>
LF       == "\n"
Literals == {<<"a">>, <<"b">>, <<"k", LF, "k">>}

\* Finding records, with and without the field.
Records ==
    {[t |-> "obj", keys |-> {K_Secret, K_File}, Secret |-> l] : l \in Literals}
    \cup {[t |-> "obj", keys |-> {K_File}]}
\* Entries that are no records.
NonRecords == {[t |-> "num"], [t |-> "str", s |-> <<"x">>],
               [t |-> "str", s |-> K_Secret]}
Entries == Records \cup NonRecords

Reports ==
    {[t |-> "invalid"], [t |-> "null"], [t |-> "num"],
     [t |-> "str", s |-> <<"x">>],
     [t |-> "obj", keys |-> {K_File}],
     [t |-> "obj", keys |-> {K_Secret, K_File}, Secret |-> <<"a">>]}
    \cup {[t |-> "list", items |-> q] : q \in SeqsUpTo(Entries, MaxFindings)}

\* What secrets.txt can hold before line 258 opens it.
PriorTexts == {<<>>, <<"o", "l", "d", LF>>}

\* str.__contains__
has_substring(s, w) ==
    \E i \in 0..(Len(s) - Len(w)) : SubSeq(s, i + 1, i + Len(w)) = w

\* line 207, '"Secret" in entry': key membership for a dict, substring test
\* for a str, TypeError for a number or null
contains_Secret(entry) ==
    CASE entry.t = "obj" -> IF K_Secret \in entry.keys THEN "yes" ELSE "no"
      [] entry.t = "str" -> IF has_substring(entry.s, K_Secret) THEN "yes" ELSE "no"
      [] OTHER -> "TypeError"

\* line 207, 'entry["Secret"]': only a dict can be indexed by a string
subscript_Secret(entry) ==
    IF entry.t = "obj" THEN [raised |-> FALSE, value |-> entry.Secret]
    ELSE [raised |-> TRUE, value |-> <<>>]

RECURSIVE SetToSeq(_)
SetToSeq(S) ==
    IF S = {} THEN <<>>
    ELSE LET x == CHOOSE y \in S : TRUE IN <<x>> \o SetToSeq(S \ {x})

\* line 207, 'for entry in report': the items of a list, the keys of a dict,
\* the characters of a str
iterate(report) ==
    CASE report.t = "list" -> report.items
      [] report.t = "obj"  ->
           LET ks == SetToSeq(report.keys) IN
           [i \in 1..Len(ks) |-> [t |-> "str", s |-> ks[i]]]
      [] report.t = "str"  ->
           [i \in 1..Len(report.s) |-> [t |-> "str", s |-> <<report.s[i]>>]]
      [] OTHER -> <<>>

\* line 207: the set comprehension, entry by entry
RECURSIVE comprehension(_, _, _)
comprehension(entries, i, acc) ==
    IF i > Len(entries) THEN [raised |-> FALSE, value |-> acc]
    ELSE LET c == contains_Secret(entries[i]) IN
         CASE c = "TypeError" -> [raised |-> TRUE, value |-> {}]
           [] c = "no" -> comprehension(entries, i + 1, acc)
           [] OTHER ->
                LET v == subscript_Secret(entries[i]) IN
                IF v.raised THEN [raised |-> TRUE, value |-> {}]
                ELSE comprehension(entries, i + 1, acc \cup {v.value})

\* lines 200-207: only json.JSONDecodeError is caught (lines 204-206); a
\* number or null cannot be iterated
get_secrets_from_report(report) ==
    CASE report.t = "invalid" -> [raised |-> FALSE, value |-> {}]
      [] report.t \in {"num", "null"} -> [raised |-> TRUE, value |-> {}]
      [] OTHER -> comprehension(iterate(report), 1, {})

\* line 207, list(set): the elements once each, in any order
ListsOf(S) ==
    {q \in [1..Cardinality(S) -> S] : \A x \in S : \E i \in DOMAIN q : q[i] = x}

\* lines 209-212: open(output_path, "w"), then secret + "\n" for each
RECURSIVE write_secrets_txt(_)
write_secrets_txt(secrets) ==
    IF secrets = <<>> THEN <<>>
    ELSE Head(secrets) \o <<LF>> \o write_secrets_txt(Tail(secrets))

\* A run that stands at line 257 with a report on disk.
InitReport ==
    /\ pc = "cch_extract"
    /\ rcst = "idle" /\ attempts = 0
    /\ lastCmd = "none" /\ lastRc = 0 /\ lastAcc = {0}
    /\ branches = <<>>
    /\ dry_run = FALSE
    /\ MOUNTED = FALSE
    /\ cwd = "mirror"
    /\ work_dir = "abs"
    /\ fs = [workdir |-> TRUE, clone |-> "local", mirror |-> 0, backup |-> 0,
             remote |-> 0, dmg |-> FALSE, attached |-> FALSE, gfr |-> FALSE,
             vmirror |-> NoDir, secrets |-> FALSE, report |-> "mirror",
             vsecrets |-> FALSE, vreport |-> "none"]
    /\ exc = "none"
    /\ exitStatus = NoStatus
    /\ gates = NoGates
    /\ runLog = <<"gitleaks git -r">>
    /\ td = NoTd
    /\ hist = NoHist
    /\ xpc = "report"
    /\ report_json \in Reports
    /\ secrets_list = <<>>
    /\ secrets_txt \in PriorTexts

\* line 257 (and 150): secrets = get_secrets_from_report(...)
extract_secrets ==
    /\ xpc = "report"
    /\ LET r == get_secrets_from_report(report_json) IN
       IF r.raised
       THEN xpc' = "raised" /\ secrets_list' = secrets_list
       ELSE xpc' = "secrets" /\ secrets_list' \in ListsOf(r.value)
    /\ UNCHANGED <<mvars, report_json, secrets_txt>>

\* line 258 (and 151): write_secrets_txt(secrets, ...)
persist_secrets ==
    /\ xpc = "secrets"
    /\ xpc' = "written"
    /\ secrets_txt' = write_secrets_txt(secrets_list)
    /\ UNCHANGED <<mvars, report_json, secrets_list>>

NextReport == extract_secrets \/ persist_secrets

SpecReport == InitReport /\ [][NextReport]_vars

\* ================================================================ claims
Said(raw, word) == lower(strip(raw)) = word

\* C1: however main() is left (menu exit, exit() at a gate or after a declined
\* retry, an unhandled exception, Ctrl-C in the workflow), the finally block
\* has run, and when MOUNTED was true as it began it called
\* kill_processes_using_path and issued hdiutil detach before the process ended.
C1_TeardownOnEveryExit ==
    pc = "done" => td.began /\ (td.mounted => td.killed /\ td.detach)

C1_Witness ==
    pc = "done" /\ exc = "KeyboardInterrupt" /\ td.mounted /\ td.killed /\ td.detach

\* C2: the exit status is 0 on menu exit or a requested exit, 1 on a missing
\* dependency, on a declined retry and on an unhandled exception.
C2_ExitStatus ==
    pc = "done" =>
       CASE exc = "exit0"     -> exitStatus = 0
         [] exc = "exit1"     -> exitStatus = 1
         [] exc = "Exception" -> exitStatus = 1
         [] OTHER             -> TRUE

\* A BFG pass is about to be issued against the mirror.
AtRewrite == pc \in {"cch_bfg", "cch_hard_bfg"} /\ rcst \in {"idle", "retry"}

\* C3 as claimed: whenever a BFG pass is issued, the backup exists and equals
\* the mirror.
C3_BackupEqualsMirror ==
    AtRewrite => fs.backup # NoDir /\ fs.backup = fs.mirror

\* C3 as amended: whenever a BFG pass is issued the backup exists; it equals
\* the mirror when this run's setup created or re-created the backup and no
\* BFG pass has been issued in this run before.
C3_BackupAtRewrite ==
    AtRewrite =>
       /\ fs.backup # NoDir
       /\ (hist.backupMade /\ ~hist.bfgIssued => fs.backup = fs.mirror)

C3_Witness ==
    /\ pc = "cch_bfg" /\ rcst = "idle"
    /\ hist.backupMade /\ ~hist.bfgIssued
    /\ fs.mirror = 1 /\ fs.backup = 1

PushCmds == {"git push origin", "git push --force --all", "git push --force --tags"}

\* C4: with --dry-run no git push is ever issued, and a history-rewrite run
\* that reaches the force-push decision has issued its scan, its rewrite,
\* reflog expire, gc and the re-scan.
C4_DryRun ==
    dry_run =>
       /\ lastCmd \notin PushCmds
       /\ pc = "cch_push_ask" =>
             {"gitleaks git -r", "bfg", "git reflog expire", "git gc",
              "gitleaks git --verbose"} \subseteq Issued
       /\ pc = "gfr_push_ask" =>
             {"gitleaks git -r", "git-filter-repo", "git reflog expire", "git gc",
              "gitleaks git --verbose"} \subseteq Issued

C4_Witness ==
    dry_run /\ pc = "cch_push_ask" /\ "bfg --no-blob-protection" \in Issued

\* C5: a destructive command is issued only after the operator's answer at
\* its own gate in the same operation: add/commit/push of a branch after "y"
\* to that branch's prompt, the hard-mode pass after "y" to its prompt, a
\* force-push after "y" to the force-push prompt, the first rewrite after the
\* review gate was answered with something other than exit.
C5_GatedCommands ==
    /\ lastCmd \in {"git add", "git commit", "git push origin"}
          => Said(gates.commit, S_y)
    /\ lastCmd = "bfg --no-blob-protection" => Said(gates.hard, S_y)
    /\ lastCmd \in {"git push --force --all", "git push --force --tags"}
          => Said(gates.push, S_y)
    /\ lastCmd \in {"bfg", "git-filter-repo"}
          => gates.review # NotAsked /\ gates.review # S_exit

C5_Witness ==
    /\ lastCmd = "git push origin" /\ lastRc = 0
    /\ branches = << <<"b">> >>
    /\ Said(gates.commit, S_y)

\* C6: a failing teardown step never changes how the process ends: the
\* status is the one the exception that left the try block stands for.
C6_TeardownNeverEscalates ==
    pc = "done" => exitStatus = StatusOf(exc)

\* C7: MOUNTED is false at start; whenever the finally block can begin it is
\* true exactly when the volume is attached; it is false once teardown ran.
C7_MountedTracksVolume ==
    /\ pc = "parse" => ~MOUNTED
    /\ pc = "t_chdir" => (MOUNTED <=> fs.attached)
    /\ pc = "done" => ~MOUNTED

ScannerCmds == {"gitleaks dir", "gitleaks git -r", "gitleaks git --verbose",
                "gitleaks git"}

\* C9: an attempt with an acceptable code returns without the prompt; the
\* scanner's acceptable codes are 0 and 1, so exit 1 returns and any other
\* code goes to the retry prompt.
C9_AcceptableReturns ==
    /\ lastCmd # "none" /\ lastRc \in lastAcc => rcst = "idle"
    /\ lastCmd \in ScannerCmds /\ lastRc \in {0, 1} => rcst = "idle"
    /\ lastCmd \in ScannerCmds /\ lastRc \notin {0, 1} => rcst \in {"prompt", "retry"}
    /\ lastCmd \notin ScannerCmds \cup {"none"} /\ lastRc = 1
          => rcst \in {"prompt", "retry"}

C9_Witness ==
    lastCmd = "gitleaks git -r" /\ lastRc = 1 /\ rcst = "idle" /\ pc = "gfr_extract"

SetupPcs ==
    {"parse", "makedirs", "abspath", "rm_stale", "deps", "clone", "clone_ask",
     "restore_reset", "restore_clean", "restore_pull", "clone_rmtree",
     "clone_reclone", "mirror", "mirror_ask", "mirror_rmtree", "mirror_reclone",
     "backup", "backup_ask", "backup_rmtree", "backup_copytree", "bfg"}

\* C10: during setup a form that exists is changed, and a command is run on
\* it, only after the operator typed discard (or restore, for the clone) at
\* that form's prompt; with all three kept nothing of them changes.
C10_SetupStep ==
    pc \in SetupPcs =>
       /\ fs.clone # "absent" /\ fs'.clone # fs.clone
             => Said(gates.clone, S_discard) \/ Said(gates.clone, S_restore)
       /\ fs.mirror # NoDir /\ fs'.mirror # fs.mirror
             => Said(gates.mirror, S_discard)
       /\ fs.backup # NoDir /\ fs'.backup # fs.backup
             => Said(gates.backup, S_discard)
       /\ lastCmd' \in {"git reset --hard", "git clean -fd", "git pull"}
             => Said(gates.clone, S_restore)
       /\ lastCmd' = "git clone" => fs.clone = "absent"
       /\ lastCmd' = "git clone --mirror" => fs.mirror = NoDir

C10_SetupFrame == [][C10_SetupStep]_vars

C10_Witness ==
    /\ pc = "bfg"
    /\ gates.clone = <<>> /\ gates.mirror = <<>> /\ gates.backup = <<>>
    /\ fs.clone = "local" /\ fs.mirror = 1 /\ fs.backup = 0

\* C11: answering "discard" at the prompt for an existing backup removes
\* the backup directory (it is gone when the copy starts) and recreates it
\* as a copy of the mirror as the mirror stage left it.
C11_DiscardBackup ==
    /\ pc = "backup_copytree" => fs.backup = NoDir
    /\ pc = "bfg" /\ Said(gates.backup, S_discard)
         => fs.backup # NoDir /\ fs.backup = fs.mirror

\* A kept mirror that differs from the remote was copied over the backup.
C11_Witness ==
    /\ pc = "bfg"
    /\ Said(gates.backup, S_discard)
    /\ ~Said(gates.mirror, S_discard)
    /\ fs.mirror # fs.remote
    /\ fs.backup = fs.mirror

\* A sequence of finding records, each with or without the field.
WellFormed(report) ==
    /\ report.t = "list"
    /\ \A i \in DOMAIN report.items : report.items[i] \in Records

\* The distinct literals of a well-formed report.
SecretsOf(report) ==
    {report.items[i].Secret :
        i \in {j \in DOMAIN report.items : K_Secret \in report.items[j].keys}}

Range(q) == {q[i] : i \in DOMAIN q}

\* The lines of a text file.
RECURSIVE LinesFrom(_, _, _)
LinesFrom(text, i, cur) ==
    IF i > Len(text) THEN IF cur = <<>> THEN <<>> ELSE <<cur>>
    ELSE IF text[i] = LF THEN <<cur>> \o LinesFrom(text, i + 1, <<>>)
    ELSE LinesFrom(text, i + 1, Append(cur, text[i]))
Lines(text) == LinesFrom(text, 1, <<>>)

\* C12: for a well-formed report the extraction returns the distinct
\* "Secret" values, each once, ignoring records without the field, and the
\* review file then holds exactly one line per distinct literal and nothing
\* of its prior content.
C12_ExtractAndPersist ==
    WellFormed(report_json) =>
        /\ xpc # "raised"
        /\ xpc \in {"secrets", "written"} =>
              /\ Range(secrets_list) = SecretsOf(report_json)
              /\ Len(secrets_list) = Cardinality(SecretsOf(report_json))
        /\ xpc = "written" =>
              /\ Len(Lines(secrets_txt)) = Cardinality(SecretsOf(report_json))
              /\ Range(Lines(secrets_txt)) = SecretsOf(report_json)

\* C13: for a malformed report the extraction does not raise and returns
\* nothing, and the review file is written empty.
C13_MalformedYieldsEmpty ==
    ~WellFormed(report_json) =>
        /\ xpc # "raised"
        /\ xpc \in {"secrets", "written"} => secrets_list = <<>>
        /\ xpc = "written" => secrets_txt = <<>>

\* C14: when check_dependencies ends the run, this run has created,
\* deleted or modified nothing: the working directory was not created and
\* no earlier secrets.txt or gitleaks-report.json was removed; the run ends
\* through exit(1).
C14_AbortBeforeMutation ==
    hist.depsMissing => exc = "exit1" /\ ~hist.created /\ ~hist.removed

RewriteCmds == {"bfg", "bfg --no-blob-protection", "git-filter-repo"}
CompactionCmds == {"git reflog expire", "git gc"}

\* C15: when an operation stops because its rewriter tool is missing, it
\* has issued no rewrite, compaction or push command and has mutated
\* nothing: no disk image created, no volume attached, no mirror cloned
\* into it, no secrets file written.
C15_MissingToolHardStop ==
    hist.toolMissing =>
        /\ Issued \cap (RewriteCmds \cup CompactionCmds \cup PushCmds) = {}
        /\ Issued \cap {"hdiutil create", "hdiutil attach",
                        "vol git clone --mirror"} = {}
        /\ ~fs.attached /\ fs.vmirror = NoDir /\ ~fs.vsecrets

\* C16: a finally block that finds MOUNTED false calls neither
\* kill_processes_using_path nor hdiutil detach and runs to its end, so the
\* process ends as the exception that left the try block says; also when
\* setup never got anywhere.
C16_TeardownUnmounted ==
    pc \in {"t_end", "done"} /\ td.began /\ ~td.mounted =>
        /\ ~td.killed /\ ~td.detach
        /\ "hdiutil detach" \notin Issued
        /\ pc = "done" => exitStatus = StatusOf(exc)

\* The run was interrupted before line 369: no working directory, no image.
C16_Witness ==
    /\ pc = "done" /\ td.began /\ ~td.mounted
    /\ work_dir = "unset" /\ ~fs.workdir /\ ~fs.dmg
    /\ td.chdirFailed

\* C17: a finally block that finds MOUNTED true calls
\* kill_processes_using_path and then issues hdiutil detach whatever failed
\* before (chdir, rmtree, lsof, os.kill), and os.kill is called for every
\* process lsof listed.
C17_TeardownIndependent ==
    /\ td.detach => td.killed
    /\ td.untried = 0
    /\ pc = "t_detach" /\ td.mounted => td.killed
    /\ pc \in {"t_end", "done"} /\ td.mounted => td.killed /\ td.detach

\* Every earlier step failed, a process could not be killed.
C17_Witness ==
    /\ pc = "done" /\ td.mounted
    /\ td.chdirFailed /\ td.rmFailed /\ td.killFailed = "os.kill"
    /\ td.detach

\* C18: when a Strategy B run has gone through to its detach and is back at
\* the menu, the gitfilter-repo directory is gone, the process is in the
\* recorded working directory, the volume is detached and MOUNTED is false;
\* whenever the detach is issued the directory is already removed and the
\* process already back in the working directory.
C18_StrategyBSuccess ==
    /\ pc = "menu" /\ "hdiutil detach" \in Issued =>
          /\ ~fs.gfr /\ fs.vmirror = NoDir
          /\ cwd = "work" /\ work_dir = "abs"
          /\ ~fs.attached
          /\ ~MOUNTED
    /\ InWorkflow /\ lastCmd = "hdiutil detach" =>
          ~fs.gfr /\ fs.vmirror = NoDir /\ cwd = "work"

\* A run that rewrote, pushed and detached.
C18_Witness ==
    /\ pc = "menu"
    /\ {"git-filter-repo", "git push --force --tags", "hdiutil detach"}
          \subseteq Issued
    /\ ~MOUNTED /\ cwd = "work"

IsPrefix(p, q) == Len(p) <= Len(q) /\ SubSeq(q, 1, Len(p)) = p

\* The first scan of a history-rewrite run in the record, 0 without one.
FirstScan ==
    IF "gitleaks git -r" \in Issued
    THEN CHOOSE i \in DOMAIN runLog :
            /\ runLog[i] = "gitleaks git -r"
            /\ \A j \in 1..(i - 1) : runLog[j] # "gitleaks git -r"
    ELSE 0

\* The record from the first scan on, and the record before it.
FromScan == IF FirstScan = 0 THEN <<>> ELSE SubSeq(runLog, FirstScan, Len(runLog))
BeforeScan == IF FirstScan = 0 THEN runLog ELSE SubSeq(runLog, 1, FirstScan - 1)

FirstPass(rewriter) ==
    <<"gitleaks git -r", "write secrets.txt", "review gate", rewriter,
      "git reflog expire", "git gc", "gitleaks git --verbose">>
HardPass ==
    <<"bfg --no-blob-protection", "git reflog expire", "git gc", "gitleaks git">>
ForcePush == <<"git push --force --all", "git push --force --tags">>

\* The complete runs the fixed order allows.
Orders ==
    {FirstPass("bfg") \o h \o p : h \in {<<>>, HardPass}, p \in {<<>>, ForcePush}}
    \cup {FirstPass("git-filter-repo") \o p \o <<"hdiutil detach">> :
             p \in {<<>>, ForcePush}}

\* C19: what a history-rewrite run has done so far is always a beginning of
\* scan, write secrets.txt, review gate, rewrite, reflog expire, gc, re-scan,
\* then for Strategy A after a confirmation the hard-mode rewrite, reflog
\* expire, gc and scan, then the force-push of all refs followed by the
\* tags; nothing of this is issued before the scan.
C19_FixedOrder ==
    /\ \E o \in Orders : IsPrefix(FromScan, o)
    /\ \A i \in DOMAIN BeforeScan :
          BeforeScan[i] \notin RewriteCmds \cup CompactionCmds
                               \cup {"git push --force --all",
                                     "git push --force --tags"}
    /\ "bfg --no-blob-protection" \in Issued => Said(gates.hard, S_y)

\* A Strategy A run with the hard-mode pass and the force-push, complete.
C19_Witness ==
    /\ pc = "cch_up"
    /\ runLog = FirstPass("bfg") \o HardPass \o ForcePush

\* C20: outside setup no step changes the backup mirror: not in the menu,
\* not in an operation, a retry or an abort, not in the finally block.
C20_BackupStep == pc \notin SetupPcs => fs'.backup = fs.backup

C20_BackupNeverModified == [][C20_BackupStep]_vars

\* After a rewrite that changed the mirror the backup still has the content
\* setup gave it.
C20_Witness ==
    /\ pc = "menu"
    /\ "bfg" \in Issued
    /\ fs.backup # NoDir
    /\ fs.mirror # fs.backup
    /\ hist.backupMade

\* C21: every rewrite, compaction and force-push command of either
\* strategy runs in the bare mirror of the working directory, the one the
\* backup was copied from.
C21_OperateOnMirror ==
    InWorkflow /\ lastCmd \in RewriteCmds \cup CompactionCmds
                              \cup {"git push --force --all",
                                    "git push --force --tags"}
        => cwd = "mirror"

\* C22: whenever the menu is presented the process is in the recorded
\* working directory, where the relative chdir of a branch clean resolves.
C22_MenuInWorkDir ==
    pc = "menu" => cwd = "work" /\ work_dir = "abs"

\* C23: hdiutil attach is issued only with MOUNTED false, the clone into
\* the volume only when no mirror of an earlier run is there, and the menu
\* is reached only with the volume detached and the temporary directory
\* removed.
C23_StrategyBReentry ==
    /\ lastCmd = "hdiutil attach" => ~MOUNTED
    /\ pc = "gfr_clone" => fs.vmirror = NoDir
    /\ pc = "menu" => ~MOUNTED /\ ~fs.attached /\ ~fs.gfr

====
